---- MODULE Spec2Model ----
(***************************************************************************)
(* Movie discovery client: the App component (src/src/App.jsx) with its    *)
(* debounced search box, the catalog fetch, and the popularity tracker     *)
(* and trending reader of src/src/appwrite.js, run on the browser's        *)
(* single-threaded event loop.  One action is one task of the event loop:  *)
(* a handler together with every microtask continuation it starts, up to   *)
(* the next await on a network call.                                       *)
(***************************************************************************)
EXTENDS Naturals, Sequences, FiniteSets, Bags, TLC

\* ------------------------------------------------------------- bounds
\* Catalog/store calls that may be awaiting a response at the same time.
MaxInFlight == 2
\* Largest value a record's count is driven to.
MaxCount == 3
\* Largest number of documents a drawn store content holds.
MaxDocs == 6

\* ---------------------------------------------------------- constants
\* useDebounce(..., 500, [searchTerm])
DELAY == 500
\* Query.limit(5)
TRENDING_LIMIT == 5

\* Granularity of the clock: two ticks per debounce window, so that a
\* keystroke can fall strictly inside a window.
Step == DELAY \div 2

\* Values typed into the search box: nothing, and a title with a character
\* that a URL has to escape.
Terms == {"", "a b"}

\* ------------------------------------------------------ catalog data
Movie1 == [id |-> 1, poster_path |-> "/p1.jpg"]
Movie2 == [id |-> 2, poster_path |-> "/p2.jpg"]
NoMovie == [id |-> 0, poster_path |-> ""]

\* The catalog's movies for a query, when it has any: the discover list
\* for the empty query, the matches of a search otherwise.
Catalog(query) == IF query = "" THEN <<Movie1>> ELSE <<Movie2, Movie1>>

\* JSON bodies the catalog may answer a query with.  hasResults = FALSE is
\* a body without a results field; Error = "" is one without an Error field.
Bodies(query) ==
  { [Response |-> "False", Error |-> "Movie not found!", hasResults |-> FALSE, results |-> <<>>],
    [Response |-> "False", Error |-> "",                 hasResults |-> FALSE, results |-> <<>>],
    [Response |-> "True",  Error |-> "",                 hasResults |-> FALSE, results |-> <<>>],
    [Response |-> "True",  Error |-> "",                 hasResults |-> TRUE,  results |-> <<>>],
    [Response |-> "True",  Error |-> "",                 hasResults |-> TRUE,  results |-> Catalog(query)] }

NoBody == [Response |-> "", Error |-> "", hasResults |-> FALSE, results |-> <<>>]

\* What the catalog request comes back with: fetch() rejects, a response
\* whose ok is false, a body that does not parse, or a parsed body.
Replies ==
  [query \in Terms |->
     { [net |-> "reject",  data |-> NoBody],
       [net |-> "notok",   data |-> NoBody],
       [net |-> "badjson", data |-> NoBody] }
     \cup { [net |-> "ok", data |-> d] : d \in Bodies(query) }]

CATCH_MESSAGE == "Error fetching movies. Please try again later."
DEFAULT_ERROR == "Failed to fetch movies"
POSTER_BASE == "https://image.tmdb.org/t/p/w500"

\* ------------------------------------------------------------- state
VARIABLES
  phase,                \* "init" before the first render, "mounted", "crashed" once
                        \* render threw and React unmounted the component
  searchTerm,           \* useState('')     raw input
  debouncedSearchTerm,  \* useState('')
  movieList,            \* useState([])
  errorMessage,         \* useState('')
  isLoading,            \* useState(false)
  trendingMovies,       \* useState([]); [defined |-> FALSE] is the value undefined
  timer,                \* <<ms elapsed>> on the pending debounce timeout, <<>> when none
  inflight,             \* the fetchMovies calls that have started and not returned (a bag)
  trending,             \* loadTrendingMovies: "idle", "pending", "ok", "failed"
  docs,                 \* the store's collection; a document's $id is its index
  \* history (read by the properties only)
  stableFor,            \* ms since searchTerm last changed (capped at DELAY)
  emitted,              \* setDebouncedSearchTerm calls since searchTerm last changed
  raced,                \* two fetchMovies calls have been in flight together since
                        \* no call was in flight
  lastResolved,         \* since the last call started -- out: among overlapping
                        \* calls, what the catalog response processed last came
                        \* to; store: how the tracker of a call that ran alone went
  applied,              \* per term, while its updateSearchCount calls have never
                        \* overlapped: their store writes that took effect
  overlapped            \* per term: two updateSearchCount calls for it have overlapped

view == <<movieList, errorMessage, isLoading>>
hist == <<stableFor, emitted, raced, lastResolved, applied, overlapped>>
vars == <<phase, searchTerm, debouncedSearchTerm, movieList, errorMessage, isLoading,
          trendingMovies, timer, inflight, trending, docs,
          stableFor, emitted, raced, lastResolved, applied, overlapped>>

NoOutcome == [kind |-> "none", results |-> <<>>, msg |-> ""]
NoDocRef == [id |-> 0, count |-> 0]
NoneResolved == [out |-> NoOutcome, store |-> "none"]

Min(a, b) == IF a < b THEN a ELSE b

\* ------------------------------------------------------ pure helpers
\* encodeURIComponent on the typed values: the space is escaped.
encodeURIComponent(str) == IF str = "a b" THEN "a%20b" ELSE str

\* Mutant of Endpoint: the search URL is built whatever the query.
Endpoint_AlwaysSearch(query) ==
  [path |-> "/search/movie", query |-> encodeURIComponent(query)]

\* fetchMovies: const endpoint = query ? search : discover
\* (query: the value of the URL's query parameter, "" when it has none)
Endpoint(query) ==
  IF query # ""
    THEN [path |-> "/search/movie", query |-> encodeURIComponent(query)]
    ELSE [path |-> "/discover/movie", query |-> ""]

\* Mutant of ErrorOf: the payload's message is used as it is.
ErrorOf_NoDefault(data) == data.Error

\* data.Error || 'Failed to fetch movies'
ErrorOf(data) == IF data.Error # "" THEN data.Error ELSE DEFAULT_ERROR

\* data.results || []
ResultsOf(data) == IF data.hasResults THEN data.results ELSE <<>>

\* Mutant of TimerDue: the timeout is armed with half the delay.
TimerDue_Early(elapsed) == elapsed >= Step

\* useDebounce: the timeout's callback runs once the delay has elapsed.
TimerDue(elapsed) == elapsed >= DELAY

\* Mutant of TimerOnChange: the pending timeout is left running.
TimerOnChange_NoReset(t) == t

\* useDebounce: a change of a dependency clears the pending timeout and
\* arms a new one.
TimerOnChange(t) == <<0>>

\* Mutant of NextCount: the count is written back without the increment.
NextCount_NoIncrement(doc) == doc.count

\* updateDocument's payload: count: doc.count + 1
NextCount(doc) == doc.count + 1

\* createDocument's payload
NewRecord(term, movie) ==
  [searchTerm |-> term,
   count      |-> 1,
   movie_id   |-> movie.id,
   poster_url |-> POSTER_BASE \o movie.poster_path]

\* Mutant of updateSearchCountThrows: the catch block rethrows.
updateSearchCountThrows_Rethrow(storeOk) == ~storeOk

\* updateSearchCount's try/catch logs every store failure and returns
\* normally: the awaiting fetchMovies never sees it throw.
updateSearchCountThrows(storeOk) == FALSE

\* listDocuments with Query.equal('searchTerm', term): the ids of the
\* matching documents, in the store's order.
Matching(term) == { k \in 1..Len(docs) : docs[k].searchTerm = term }
FirstOf(S) == CHOOSE k \in S : \A j \in S : k <= j

\* The calls in flight, and the bag with call c gone / with c replaced.
Calls == BagToSet(inflight)
Without(c) == inflight (-) SetToBag({c})
Replaced(c, d) == Without(c) (+) SetToBag({d})

\* ------------------------------------------------------------- Init
Init ==
  /\ phase = "init"
  /\ searchTerm = ""
  /\ debouncedSearchTerm = ""
  /\ movieList = <<>>
  /\ errorMessage = ""
  /\ isLoading = FALSE
  /\ trendingMovies = [defined |-> TRUE, list |-> <<>>]
  /\ timer = <<>>
  /\ inflight = EmptyBag
  /\ trending = "idle"
  /\ docs = <<>>
  /\ stableFor = 0
  /\ emitted = 0
  /\ raced = FALSE
  /\ lastResolved = NoneResolved
  /\ applied = [t \in Terms |-> 0]
  /\ overlapped = [t \in Terms |-> FALSE]

\* A state setter called on the unmounted component changes nothing.
SetView(ml, em, il) ==
  /\ movieList' = IF phase = "mounted" THEN ml ELSE movieList
  /\ errorMessage' = IF phase = "mounted" THEN em ELSE errorMessage
  /\ isLoading' = IF phase = "mounted" THEN il ELSE isLoading

\* ------------------------------------------------------ fetchMovies
NewCall(query, atMount) ==
  [query    |-> query,
   endpoint |-> Endpoint(query),
   phase    |-> "fetch",
   out      |-> NoOutcome,
   movie    |-> NoMovie,
   doc      |-> NoDocRef,
   \* history
   mount    |-> atMount,
   stable   |-> stableFor,
   raw      |-> searchTerm]

\* Mutant of fetchMoviesStart: setErrorMessage('') is left out.
fetchMoviesStart_KeepsError(query, atMount) ==
  /\ BagCardinality(inflight) < MaxInFlight
  /\ isLoading' = TRUE
  /\ errorMessage' = errorMessage
  /\ movieList' = movieList
  /\ inflight' = inflight (+) SetToBag({NewCall(query, atMount)})
  /\ raced' = (inflight # EmptyBag)
  /\ lastResolved' = NoneResolved

\* fetchMovies up to its first await: setIsLoading(true),
\* setErrorMessage(''), fetch(endpoint) issued.
fetchMoviesStart(query, atMount) ==
  /\ BagCardinality(inflight) < MaxInFlight
  /\ isLoading' = TRUE
  /\ errorMessage' = ""
  /\ movieList' = movieList
  /\ inflight' = inflight (+) SetToBag({NewCall(query, atMount)})
  /\ raced' = (inflight # EmptyBag)
  /\ lastResolved' = NoneResolved

\* What the awaited catalog request makes of fetchMovies(query): the
\* catch block ("thrown"), the failure-flag branch ("provider") or the
\* success path ("ok").
Outcome(query, reply) ==
  IF reply.net # "ok"
    THEN [kind |-> "thrown", results |-> <<>>, msg |-> CATCH_MESSAGE]
  ELSE IF reply.data.Response = "False"
    THEN [kind |-> "provider", results |-> <<>>, msg |-> ErrorOf(reply.data)]
  ELSE IF query # "" /\ ~reply.data.hasResults
    \* data.results.length of an absent results field throws a TypeError
    THEN [kind |-> "thrown", results |-> <<>>, msg |-> CATCH_MESSAGE]
  ELSE [kind |-> "ok", results |-> ResultsOf(reply.data), msg |-> ""]

\* Mutant of TracksSearch: the guard does not look at the query.
TracksSearch_AnyQuery(query, out) == out.kind = "ok" /\ Len(out.results) > 0

\* if (query && data.results.length > 0)
TracksSearch(query, out) == query # "" /\ out.kind = "ok" /\ Len(out.results) > 0

Tracking(c) == c.phase \in {"list", "update", "create"}

\* Mutant of Finish: there is no finally block, isLoading is left as it is.
Finish_NoFinally(c, ml, em, out, storeResult) ==
  /\ SetView(ml, em, isLoading)
  /\ inflight' = Without(c)
  /\ lastResolved' = IF phase # "mounted" THEN lastResolved
                      ELSE [out   |-> IF raced THEN out ELSE NoOutcome,
                            store |-> IF raced THEN "none" ELSE storeResult]

\* fetchMovies' finally block of call c, and its return.
Finish(c, ml, em, out, storeResult) ==
  /\ SetView(ml, em, FALSE)
  /\ inflight' = Without(c)
  /\ lastResolved' = IF phase # "mounted" THEN lastResolved
                      ELSE [out   |-> IF raced THEN out ELSE NoOutcome,
                            store |-> IF raced THEN "none" ELSE storeResult]

\* The catalog request of call c comes back: fetchMovies runs from
\* `await fetch` to its return, or to the await inside updateSearchCount.
FetchResolve(c, reply) ==
  LET out == Outcome(c.query, reply) IN
  /\ c.phase = "fetch"
  /\ UNCHANGED <<phase, searchTerm, debouncedSearchTerm, trendingMovies, timer,
                 trending, docs, stableFor, emitted, raced>>
  /\ IF reply.net # "ok"
       THEN \* !response.ok, a rejected fetch or json(): catch, finally
            /\ Finish(c, movieList, out.msg, out, "none")
            /\ UNCHANGED <<overlapped, applied>>
     ELSE IF out.kind = "provider"
       THEN \* setErrorMessage(data.Error || ...); setMovieList([]); return
            /\ Finish(c, <<>>, out.msg, out, "none")
            /\ UNCHANGED <<overlapped, applied>>
     ELSE IF out.kind = "thrown"
       THEN \* setMovieList([]) ran before data.results.length threw
            /\ Finish(c, <<>>, out.msg, out, "none")
            /\ UNCHANGED <<overlapped, applied>>
     ELSE IF TracksSearch(c.query, out)
       THEN \* setMovieList(results); updateSearchCount issues listDocuments
            /\ SetView(out.results, errorMessage, isLoading)
            /\ inflight' = Replaced(c, [c EXCEPT !.phase = "list", !.out = out,
                                                   !.movie = out.results[1]])
            /\ overlapped' = [overlapped EXCEPT ![c.query] =
                 @ \/ \E d \in Calls : Tracking(d) /\ d.query = c.query]
            /\ applied' = [applied EXCEPT ![c.query] =
                 IF overlapped'[c.query] THEN 0 ELSE @]
            /\ lastResolved' = IF phase = "mounted" /\ raced
                                 THEN [out |-> out, store |-> "none"]
                                 ELSE lastResolved
       ELSE /\ Finish(c, out.results, errorMessage, out, "none")
            /\ UNCHANGED <<overlapped, applied>>

\* updateSearchCount returned to fetchMovies (or threw into its catch).
TrackerReturns(c, storeOk) ==
  IF updateSearchCountThrows(storeOk)
    THEN Finish(c, movieList, CATCH_MESSAGE, lastResolved.out, "failed")
    ELSE Finish(c, movieList, errorMessage, lastResolved.out,
                IF storeOk THEN "ok" ELSE "failed")

\* listDocuments of call c comes back.
ListResolve(c, ok) ==
  LET found == Matching(c.query) IN
  /\ c.phase = "list"
  /\ IF ~ok
       THEN TrackerReturns(c, FALSE)
     ELSE IF found # {}
       THEN \* result.documents[0]; updateDocument(doc.$id, {count: doc.count + 1})
            LET k == FirstOf(found) IN
            /\ docs[k].count < MaxCount
            /\ inflight' = Replaced(c, [c EXCEPT !.phase = "update",
                                   !.doc = [id |-> k, count |-> NextCount(docs[k])]])
            /\ UNCHANGED <<view, lastResolved>>
       ELSE \* createDocument(ID.unique(), {searchTerm, count: 1, ...})
            /\ inflight' = Replaced(c, [c EXCEPT !.phase = "create"])
            /\ UNCHANGED <<view, lastResolved>>
  /\ UNCHANGED <<phase, searchTerm, debouncedSearchTerm, trendingMovies, timer,
                 trending, docs, stableFor, emitted, raced, applied, overlapped>>

\* updateDocument / createDocument of call c comes back.  took: the store
\* carried the write out; ok: the client got a success response.
WriteResolve(c, took, ok) ==
  /\ c.phase \in {"update", "create"}
  /\ ok => took
  /\ docs' = IF ~took THEN docs
             ELSE IF c.phase = "update"
               THEN [docs EXCEPT ![c.doc.id].count = c.doc.count]
               ELSE Append(docs, NewRecord(c.query, c.movie))
  /\ applied' = IF took /\ ~overlapped[c.query]
                   THEN [applied EXCEPT ![c.query] = Min(@ + 1, MaxCount + 1)]
                   ELSE applied
  /\ TrackerReturns(c, ok)
  /\ UNCHANGED <<phase, searchTerm, debouncedSearchTerm, trendingMovies, timer,
                 trending, stableFor, emitted, raced, overlapped>>

\* ------------------------------------------------- trending reader
\* A document as listDocuments returns it.
Document(k) ==
  [id |-> k, searchTerm |-> docs[k].searchTerm, count |-> docs[k].count,
   movie_id |-> docs[k].movie_id, poster_url |-> docs[k].poster_url]

\* Query.orderDesc("count"): by count, highest first; the store keeps
\* documents of equal count in creation order.
RECURSIVE OrderDesc(_)
OrderDesc(S) ==
  IF S = {} THEN <<>>
  ELSE LET k == CHOOSE k \in S : \A j \in S :
                   \/ docs[k].count > docs[j].count
                   \/ docs[k].count = docs[j].count /\ k <= j
       IN <<Document(k)>> \o OrderDesc(S \ {k})

\* Mutant of Limit: Query.limit is not sent, every document comes back.
Limit_None(seq, n) == seq

\* Query.limit(n)
Limit(seq, n) == SubSeq(seq, 1, Min(n, Len(seq)))

\* getTrendingMovies' store read when it succeeds: result.documents
TrendingDocuments == Limit(OrderDesc(1..Len(docs)), TRENDING_LIMIT)

\* getTrendingMovies' catch block logs and falls off the end of the
\* function: the promise resolves, to undefined.
getTrendingMoviesThrows == FALSE
TrendingOnFailure == [defined |-> FALSE, list |-> <<>>]

\* Mutant of TrendingEffectReruns: the effect depends on
\* [debouncedSearchTerm] and runs again after every new search.
TrendingEffectReruns_OnSearch == TRUE

\* useEffect(() => { loadTrendingMovies() }, []): with the empty
\* dependency list the effect runs after the first render only.
TrendingEffectReruns == FALSE

\* Render: trendingMovies.length > 0 && ... throws on undefined.
RenderThrows(tm) == ~tm.defined

\* Render threw: the component is unmounted, its state is discarded and
\* useDebounce's cleanup clears the timeout.  Calls in flight run on.
Unmount ==
  /\ phase' = "crashed"
  /\ timer' = <<>>
  /\ searchTerm' = ""
  /\ debouncedSearchTerm' = ""
  /\ movieList' = <<>>
  /\ errorMessage' = ""
  /\ isLoading' = FALSE
  /\ stableFor' = 0
  /\ emitted' = 0
  /\ raced' = FALSE
  /\ lastResolved' = NoneResolved

\* listDocuments of getTrendingMovies comes back; loadTrendingMovies runs
\* to its end and the component renders again.
TrendingResolve(ok) ==
  LET movies == IF ok THEN [defined |-> TRUE, list |-> TrendingDocuments]
                      ELSE TrendingOnFailure
  IN
  /\ trending = "pending"
  /\ trending' = IF ok THEN "ok" ELSE "failed"
  /\ IF ~ok /\ getTrendingMoviesThrows
       THEN \* loadTrendingMovies' catch: logged, state untouched
            UNCHANGED <<trendingMovies, phase, timer, searchTerm, debouncedSearchTerm,
                        view, stableFor, emitted, raced, lastResolved>>
       ELSE /\ trendingMovies' = movies
            /\ IF RenderThrows(movies)
                 THEN Unmount
                 ELSE UNCHANGED <<phase, timer, searchTerm, debouncedSearchTerm, view,
                                  stableFor, emitted, raced, lastResolved>>
  /\ UNCHANGED <<inflight, docs, applied, overlapped>>

\* ---------------------------------------------------- the component
\* First render and its effects: useDebounce arms the timeout,
\* fetchMovies(debouncedSearchTerm) and loadTrendingMovies() start.
Mount ==
  /\ phase = "init"
  /\ phase' = "mounted"
  /\ timer' = <<0>>
  /\ fetchMoviesStart(debouncedSearchTerm, TRUE)
  /\ trending' = "pending"
  /\ UNCHANGED <<searchTerm, debouncedSearchTerm, trendingMovies, docs,
                 stableFor, emitted, applied, overlapped>>

\* Search's onChange: setSearchTerm(event.target.value); the render that
\* follows runs useDebounce's effect for the changed dependency.
onChange(v) ==
  /\ phase = "mounted"
  /\ v # searchTerm
  /\ searchTerm' = v
  /\ timer' = TimerOnChange(timer)
  /\ stableFor' = 0
  /\ emitted' = 0
  /\ UNCHANGED <<phase, debouncedSearchTerm, view, trendingMovies, inflight,
                 trending, docs, raced, lastResolved, applied, overlapped>>

\* Step ms pass.
Tick ==
  /\ phase = "mounted"
  /\ (timer # <<>> /\ ~TimerDue(timer[1])) \/ stableFor < DELAY
  /\ timer' = IF timer # <<>> /\ ~TimerDue(timer[1]) THEN <<timer[1] + Step>> ELSE timer
  /\ stableFor' = Min(stableFor + Step, DELAY)
  /\ UNCHANGED <<phase, searchTerm, debouncedSearchTerm, view, trendingMovies,
                 inflight, trending, docs, emitted, raced, lastResolved, applied,
                 overlapped>>

\* The debounce timeout fires: setDebouncedSearchTerm(searchTerm); if the
\* value changed, the render that follows runs the effect
\* fetchMovies(debouncedSearchTerm).
TimerFire ==
  /\ phase = "mounted"
  /\ timer # <<>>
  /\ TimerDue(timer[1])
  /\ timer' = <<>>
  /\ emitted' = Min(emitted + 1, 2)
  /\ debouncedSearchTerm' = searchTerm
  /\ IF searchTerm # debouncedSearchTerm
       THEN fetchMoviesStart(debouncedSearchTerm', FALSE)
       ELSE UNCHANGED <<view, inflight, raced, lastResolved>>
  /\ trending' = IF TrendingEffectReruns /\ searchTerm # debouncedSearchTerm
                    THEN "pending" ELSE trending
  /\ UNCHANGED <<phase, searchTerm, trendingMovies, docs,
                 stableFor, applied, overlapped>>

Next ==
  \/ Mount
  \/ \E v \in Terms : onChange(v)
  \/ Tick
  \/ TimerFire
  \/ \E c \in Calls : \E reply \in Replies[c.query] : FetchResolve(c, reply)
  \/ \E c \in Calls : \E ok \in BOOLEAN : ListResolve(c, ok)
  \/ \E c \in Calls : \E took \in BOOLEAN : \E ok \in BOOLEAN : WriteResolve(c, took, ok)
  \/ \E ok \in BOOLEAN : TrendingResolve(ok)

Spec == Init /\ [][Next]_vars

\* The event loop runs every task that is ready: the first render happens,
\* time passes, a due timeout fires, and every network call is answered
\* (resolved or rejected).  Nothing obliges the user to type.
Fairness ==
  /\ WF_vars(Mount)
  /\ WF_vars(Tick)
  /\ WF_vars(TimerFire)
  /\ WF_vars(\E c \in Calls : \E reply \in Replies[c.query] : FetchResolve(c, reply))
  /\ WF_vars(\E c \in Calls : \E ok \in BOOLEAN : ListResolve(c, ok))
  /\ WF_vars(\E c \in Calls : \E took \in BOOLEAN : \E ok \in BOOLEAN : WriteResolve(c, took, ok))
  /\ WF_vars(\E ok \in BOOLEAN : TrendingResolve(ok))

FairSpec == Init /\ [][Next]_vars /\ Fairness

\* ------------------------------------------------- the search flow
\* The search flow on its own: the App while the store's answer to the
\* trending read of the mount is outstanding.
NextSearch ==
  \/ Mount
  \/ \E v \in Terms : onChange(v)
  \/ Tick
  \/ TimerFire
  \/ \E c \in Calls : \E reply \in Replies[c.query] : FetchResolve(c, reply)
  \/ \E c \in Calls : \E ok \in BOOLEAN : ListResolve(c, ok)
  \/ \E c \in Calls : \E took \in BOOLEAN : \E ok \in BOOLEAN : WriteResolve(c, took, ok)

SpecSearch == Init /\ [][NextSearch]_vars

\* ------------------------------------ trending reader, any store content
\* Records as createDocument and updateDocument leave them.
StoredRecords ==
  { [NewRecord("a b", Movie2) EXCEPT !.count = n] : n \in 1..MaxCount }

\* Store contents of up to MaxDocs documents.
StoreContents == UNION { [1..n -> StoredRecords] : n \in 0..MaxDocs }

\* The App is constructed against a store that earlier sessions filled.
InitStore ==
  /\ phase = "init"
  /\ searchTerm = ""
  /\ debouncedSearchTerm = ""
  /\ movieList = <<>>
  /\ errorMessage = ""
  /\ isLoading = FALSE
  /\ trendingMovies = [defined |-> TRUE, list |-> <<>>]
  /\ timer = <<>>
  /\ inflight = EmptyBag
  /\ trending = "idle"
  /\ docs \in StoreContents
  /\ stableFor = 0
  /\ emitted = 0
  /\ raced = FALSE
  /\ lastResolved = NoneResolved
  /\ applied = [t \in Terms |-> 0]
  /\ overlapped = [t \in Terms |-> FALSE]

\* The mount and the answer to getTrendingMovies' store read.
NextTrending ==
  \/ Mount
  \/ \E ok \in BOOLEAN : TrendingResolve(ok)

SpecTrending == InitStore /\ [][NextTrending]_vars

TypeOK ==
  /\ phase \in {"init", "mounted", "crashed"}
  /\ searchTerm \in Terms /\ debouncedSearchTerm \in Terms
  /\ isLoading \in BOOLEAN
  /\ BagCardinality(inflight) <= MaxInFlight
  /\ \A k \in 1..Len(docs) : docs[k].count \in 1..MaxCount

\* ------------------------------------------------------- properties
Mounted == phase = "mounted"
Idle == inflight = EmptyBag

\* C1: once a fetchMovies call has completed and no fetch is in flight,
\* isLoading is false, and errorMessage is not non-empty while movieList
\* still holds the non-empty result list of an earlier fetch.  Stated for
\* a call that ran alone, so that a non-empty list next to its error can
\* only be left over from an earlier call.
C1_SingleTerminalState ==
  (Mounted /\ Idle /\ ~raced) =>
     /\ isLoading = FALSE
     /\ ~(errorMessage # "" /\ movieList # <<>>)

\* C2: after two overlapping fetchMovies calls have both resolved, movieList
\* and errorMessage are what the call whose response came last would have
\* produced alone: its results and no error, or its error.
C2_LastResolvingWins ==
  (Mounted /\ Idle /\ raced) =>
     LET out == lastResolved.out IN
     /\ out.kind = "ok" => movieList = out.results /\ errorMessage = ""
     /\ out.kind = "provider" => movieList = <<>> /\ errorMessage = out.msg
     /\ out.kind = "thrown" => errorMessage = out.msg

\* C3: per quiescent period of searchTerm the debouncer calls
\* setDebouncedSearchTerm at most once, only after the full window has
\* passed without a change, with the value searchTerm has kept through the
\* window; a change inside the window clears the pending timeout, which is
\* pending exactly while the period's value has not been emitted.
C3_DebounceEmitsOncePerQuiescence ==
  Mounted =>
     /\ emitted <= 1
     /\ (timer = <<>>) <=> (emitted = 1)
     /\ timer # <<>> => timer[1] = stableFor
     /\ emitted = 1 => debouncedSearchTerm = searchTerm /\ stableFor >= DELAY

\* C3 witness: a change of searchTerm followed by a full window and the
\* single emission of the new value.
C3_Witness ==
  Mounted /\ emitted = 1 /\ searchTerm = "a b" /\ debouncedSearchTerm = "a b"

\* C4 (as claimed): every catalog query, the one issued at mount included,
\* is issued after searchTerm has been unchanged for the full window, for
\* the term searchTerm held through it.
C4_EveryQueryAfterWindow ==
  \A c \in Calls : c.stable >= DELAY /\ c.query = c.raw

\* C4 (amended): every catalog query other than the one issued at mount is
\* issued after searchTerm has been unchanged for the full window, for the
\* term searchTerm held through it; the mount query is issued at once, for
\* the empty term.
C4_QueryAfterWindowExceptMount ==
  \A c \in Calls :
     IF c.mount THEN c.stable = 0 /\ c.query = ""
                ELSE c.stable >= DELAY /\ c.query = c.raw

C4_Witness ==
  \E c \in Calls : ~c.mount /\ c.query = "a b" /\ c.phase = "fetch"

\* C5: for updateSearchCount calls of a term that never overlapped, the
\* store holds no record of the term before the first write, and after n
\* writes exactly one, with count = n, the id of the first result and the
\* poster URL derived from its path.
C5_SequentialCallsCount ==
  \A t \in Terms : ~overlapped[t] =>
     LET M == Matching(t) IN
     /\ applied[t] = 0 => M = {}
     /\ applied[t] > 0 =>
          /\ Cardinality(M) = 1
          /\ \A k \in M :
               /\ docs[k].count = applied[t]
               /\ docs[k].movie_id = 2
               /\ docs[k].poster_url = "https://image.tmdb.org/t/p/w500/p2.jpg"

C5_Witness ==
  /\ ~overlapped["a b"]
  /\ applied["a b"] = 2
  /\ \E k \in 1..Len(docs) : docs[k].searchTerm = "a b" /\ docs[k].count = 2

\* C6: the store holds at most one record per distinct searchTerm.
C6_OneRecordPerTerm ==
  \A t \in Terms : Cardinality(Matching(t)) <= 1

\* C7: no write makes a record's stored count smaller than it was.
C7_CountNeverDecreases ==
  [][\A k \in 1..Len(docs) : docs'[k].count >= docs[k].count]_vars

\* C8: when the store read of getTrendingMovies has failed, trendingMovies
\* is left as the empty list once loadTrendingMovies has completed.
C8_TrendingEmptyOnFailure ==
  trending = "failed" => trendingMovies.defined /\ Len(trendingMovies.list) = 0

\* C9: a failed store operation inside updateSearchCount changes neither
\* movieList nor errorMessage, and a fetchMovies call that ran alone and
\* whose tracker failed ends with movieList equal to the catalog results,
\* errorMessage empty and isLoading cleared.
C9_StoreFailureSpares ==
  (Mounted /\ Idle /\ ~raced /\ lastResolved.store = "failed") =>
     /\ movieList = Catalog(debouncedSearchTerm)
     /\ errorMessage = ""
     /\ isLoading = FALSE

C9_StoreFailureStep ==
  [][(Mounted /\ BagCardinality(inflight') < BagCardinality(inflight)
        /\ lastResolved'.store = "failed") =>
        movieList' = movieList /\ errorMessage' = errorMessage]_vars

C9_StoreFailureNeverFailsFetch == []C9_StoreFailureSpares /\ C9_StoreFailureStep

C9_Witness ==
  Mounted /\ Idle /\ ~raced /\ lastResolved.store = "failed" /\ movieList = <<Movie2, Movie1>>

\* C10: fetchMovies clears isLoading without waiting for the store
\* operations of updateSearchCount: when every call in flight is only
\* waiting for the tracker, isLoading is false.
C10_TrackerFireAndForget ==
  (Mounted /\ ~Idle /\ \A c \in Calls : Tracking(c)) =>
     isLoading = FALSE

\* The calls that are awaiting updateSearchCount's listDocuments after the
\* step and were not before it: the tracker invocations the step started.
Invoked ==
  { x \in BagToSet(inflight') :
      x.phase = "list" /\ CopiesIn(x, inflight') > CopiesIn(x, inflight) }

\* The catalog answered with a parsed body that has no failure flag.
Successful(reply) == reply.net = "ok" /\ reply.data.Response # "False"

\* C11: a fetchMovies call whose catalog response is successful with a
\* non-empty results array, for a non-empty query, invokes
\* updateSearchCount once, with that query and results[0]; a call with an
\* empty query, an empty or absent results array, a non-OK response or a
\* failure-flag response does not invoke it, and nothing but the arrival
\* of a catalog response starts an invocation.
C11_TrackerInvokedOnce ==
  [][/\ \A c \in Calls : \A reply \in Replies[c.query] :
          FetchResolve(c, reply) =>
            IF /\ Successful(reply)
               /\ reply.data.hasResults
               /\ reply.data.results # <<>>
               /\ c.query # ""
              THEN /\ Cardinality(Invoked) = 1
                   /\ \A x \in Invoked :
                        /\ x.query = c.query
                        /\ x.movie = reply.data.results[1]
                        /\ CopiesIn(x, inflight') = CopiesIn(x, inflight) + 1
                   /\ BagCardinality(inflight') = BagCardinality(inflight)
              ELSE /\ Invoked = {}
                   /\ inflight' = Without(c)
     /\ Invoked # {} =>
          \E c \in Calls : \E reply \in Replies[c.query] : FetchResolve(c, reply)
    ]_vars

\* C11 witness: updateSearchCount("a b", results[0]) has been invoked and
\* awaits listDocuments.
C11_Witness ==
  \E c \in Calls : c.phase = "list" /\ c.query = "a b" /\ c.movie = Movie2

\* A call that has the event loop to itself: no other fetchMovies call is
\* in flight or has been since it started.
Alone(c) == ~raced /\ inflight = SetToBag({c})

\* C12: for every query, empty or not, a successful catalog response
\* without the failure flag leaves movieList equal to the response's
\* results array, or to the empty list when the body has no results
\* field, and errorMessage empty.  Stated for a call that ran alone, so
\* that no other call's error can be on display.
C12_SuccessShowsResults ==
  [][Mounted =>
       \A c \in Calls : \A reply \in Replies[c.query] :
          (Alone(c) /\ Successful(reply) /\ FetchResolve(c, reply)) =>
             /\ movieList' = (IF reply.data.hasResults THEN reply.data.results ELSE <<>>)
             /\ errorMessage' = ""
    ]_vars

\* The catalog answered with a parsed body that carries the failure flag.
Flagged(reply) == reply.net = "ok" /\ reply.data.Response = "False"

\* C13: when the catalog response body carries the failure flag,
\* fetchMovies ends on that response with movieList empty and
\* errorMessage equal to the payload's message, or to the default string
\* when the payload has none; the call returns without invoking the
\* tracker.
C13_FailureFlagShowsMessage ==
  [][Mounted =>
       \A c \in Calls : \A reply \in Replies[c.query] :
          (c.phase = "fetch" /\ Flagged(reply) /\ FetchResolve(c, reply)) =>
             /\ movieList' = <<>>
             /\ errorMessage' = (IF reply.data.Error # "" THEN reply.data.Error
                                                          ELSE "Failed to fetch movies")
             /\ inflight' = Without(c)
             /\ Invoked = {}
             /\ docs' = docs
    ]_vars

\* C13 witness: a search ended on a failure-flag body without a message.
C13_Witness ==
  /\ Mounted /\ Idle
  /\ debouncedSearchTerm = "a b"
  /\ errorMessage = "Failed to fetch movies"
  /\ movieList = <<>>

\* The catalog server's reading of a query parameter: percent-decoding.
decodeURIComponent(str) == IF str = "a%20b" THEN "a b" ELSE str

\* C14: each request issued for an empty query targets the discover
\* endpoint, each request issued for a non-empty query targets the search
\* endpoint with a query parameter that decodes to that query, and the
\* search endpoint is never requested with an empty query parameter.
C14_EndpointByQuery ==
  \A c \in Calls :
     /\ c.query = "" => c.endpoint.path = "/discover/movie"
     /\ c.query # "" => /\ c.endpoint.path = "/search/movie"
                        /\ decodeURIComponent(c.endpoint.query) = c.query
     /\ c.endpoint.path = "/search/movie" => c.endpoint.query # ""

\* C14 witness: a discover request and a search request are both awaiting
\* their responses.
C14_Witness ==
  /\ \E c \in Calls : c.phase = "fetch" /\ c.endpoint.path = "/discover/movie"
  /\ \E c \in Calls : c.phase = "fetch" /\ c.endpoint = [path |-> "/search/movie", query |-> "a%20b"]

\* C15: for every store content, getTrendingMovies returns at most 5
\* records, and for all adjacent pairs in the returned order the earlier
\* record's count is greater than or equal to the later's.
C15_TrendingTopFive ==
  trending = "ok" =>
     LET list == trendingMovies.list IN
     /\ Len(list) <= 5
     /\ \A i \in 1..(Len(list) - 1) : list[i].count >= list[i + 1].count

\* C15 witness: a store of more than 5 documents, created in ascending
\* order of count, has been read.
C15_Witness ==
  /\ trending = "ok"
  /\ Len(docs) > 5
  /\ docs[1].count < docs[Len(docs)].count
  /\ Len(trendingMovies.list) = 5
  /\ trendingMovies.list[1].count > trendingMovies.list[5].count

\* C16: whatever the input changes, debounce firings and fetch starts and
\* resolutions, overlapping fetches included, no view state has isLoading
\* true together with a non-empty errorMessage; in particular loading,
\* error and results are never on display together.
C16_NeverLoadingWithError ==
  ~(isLoading /\ errorMessage # "")

\* C16 witness: of two overlapping fetches one has ended in an error, next
\* to the results of an earlier fetch, and the other is still in flight.
C16_Witness ==
  /\ Mounted /\ raced
  /\ errorMessage # ""
  /\ movieList # <<>>
  /\ \E c \in Calls : c.phase = "fetch"

\* C17: the search flow never changes the trending list.  trendingMovies
\* is written only when the one loadTrendingMovies call, started at mount,
\* gets its answer, and every step of fetchMovies and updateSearchCount,
\* one that creates or increments a record included, leaves it unchanged.
C17_SearchLeavesTrending ==
  [][/\ (trending' = "pending" /\ trending # "pending") => phase = "init"
     /\ trendingMovies' # trendingMovies =>
          /\ trending = "pending" /\ trending' \in {"ok", "failed"}
          /\ inflight' = inflight /\ docs' = docs
     /\ (inflight' # inflight \/ docs' # docs) => trendingMovies' = trendingMovies
    ]_vars

\* C17 witness: the trending list was read while the store was empty, and
\* a search has since created a record and another incremented it.
C17_Witness ==
  /\ Mounted
  /\ trending = "ok"
  /\ trendingMovies.list = <<>>
  /\ \E k \in 1..Len(docs) : docs[k].count = 2

\* C18: in every state in which a fetchMovies call has started and not yet
\* completed, isLoading is true, also when fetches overlap.
C18_LoadingWhileInFlight ==
  (Mounted /\ ~Idle) => isLoading = TRUE

\* The search has settled: the debounced term is the typed one, no fetch
\* is in flight and the spinner is off.
Settled == debouncedSearchTerm = searchTerm /\ Idle /\ isLoading = FALSE

\* C19: if the user eventually stops changing searchTerm, then, the timer
\* and every network call being answered, eventually debouncedSearchTerm
\* equals searchTerm, no fetch is in flight and isLoading is false, and it
\* stays so.
C19_EventuallySettled ==
  (<>[][searchTerm' = searchTerm]_vars) => <>[]Settled

\* C19 witness: a typed term has been emitted and its search has come back.
C19_Witness ==
  /\ Mounted /\ Settled
  /\ searchTerm = "a b"
  /\ timer = <<>>
  /\ movieList = <<Movie2, Movie1>>

====
